---- MODULE Spec2Model ----
(***************************************************************************)
(* Model of package uuid (github.com/4xoc/uuid): the scope registry        *)
(* (setScopes / scopes), New, Read, readScope, Scan, Scopes, ScopeMatches  *)
(* and the accessors, plus the interleavings of concurrent SetScopes       *)
(* callers and registry readers.                                           *)
(*                                                                         *)
(* Go values are modelled as follows.                                      *)
(*   byte          0..255                                                  *)
(*   [16]byte      function 0..15 -> byte                                  *)
(*   []byte        the 16-byte slices handed to Scan are indexed from 0    *)
(*                 like arrays; the result of hex.DecodeString is a        *)
(*                 sequence                                                *)
(*   string (hex)  sequence of one-character strings                       *)
(*   string (name) TLA+ string                                             *)
(*   *UUID         record [isNil, scope, hex, bin]; the nil pointer is the *)
(*                 record with isNil = TRUE                                *)
(*   map[string]*byte   record [isNil, m]; m maps a name to the index i of *)
(*                 the element &scopes[i] it points to                     *)
(*   error         the error's text; NoError is Go's nil error             *)
(***************************************************************************)
EXTENDS Integers, Sequences, FiniteSets, TLC

VARIABLES
    setScopes,  \* the package variable setScopes
    myUUID,     \* the caller's *UUID: assigned from New and Read, receiver of Scan
                \* and ScopeMatches
    last,       \* the last call made by the sequential caller: [op, arg, err, ret, list];
                \* arg is the scope handed to New
    pc,         \* concurrent callers: position of each goroutine inside SetScopes
    newScopes,  \* concurrent callers: the argument of each goroutine's SetScopes call
    tmpMap,     \* concurrent callers: SetScopes' local tmpMap
    result,     \* concurrent callers: what SetScopes returned
    obs         \* concurrent reader: what its last registry read observed

vars == <<setScopes, myUUID, last, pc, newScopes, tmpMap, result, obs>>

seqVars == <<myUUID, last>>
raceVars == <<pc, newScopes, tmpMap, result, obs>>

----------------------------------------------------------------------------
(* Bounds of the model. *)

\* Number of leading array entries that range over PrefixNames.
PrefixLen == 2
\* Random 16-byte fills crypto/rand may deliver are RandBytes(0..MaxSeed).
MaxSeed == 0
\* Longest candidate list handed to ScopeMatches.
MaxCand == 1
\* A racing registry read sees the whole map or the first 0..MaxVisible loop writes.
MaxVisible == 3

----------------------------------------------------------------------------
(* Constants of the package. *)

ErrorMissingScope == "The provided scope is not known."
ErrorBadScope == "The provided scope is not supported."
ErrorBadString == "The provided string is not a UUID."
ErrorScopesAlreadySet == "Scopes can only be set once."
ErrorTypeAssertion == "Type assertion .([]byte) failed."
NoError == "nil"
\* A run-time panic (nil pointer dereference); the caller is taken to recover from
\* it, so the state of the package is what the panicking call left.
Panic == "panic: nil pointer dereference"

\* Length of the scopes table and of the array SetScopes takes.
NumScopes == 64
\* mrand.Intn(4): the jitter is drawn from 0..JitterRange-1.
JitterRange == 4
\* Length of UUID.bin.
BinLen == 16

ScopesTable ==
    <<  0,   4,   8,  12,
       16,  20,  24,  28,
       32,  36,  40,  44,
       48,  52,  56,  60,
       64,  68,  72,  76,
       80,  84,  88,  92,
       96, 100, 104, 108,
      112, 116, 120, 124,
      128, 132, 136, 140,
      144, 148, 152, 156,
      160, 164, 168, 172,
      176, 180, 184, 188,
      192, 196, 200, 204,
      208, 212, 216, 220,
      224, 228, 232, 236,
      240, 244, 248, 252 >>

\* scopes[i], 0-based as in the source.
scopes == [i \in 0..(NumScopes - 1) |-> ScopesTable[i + 1]]

----------------------------------------------------------------------------
(* Byte arithmetic. *)

RECURSIVE BitOrN(_, _, _)
BitOrN(a, b, n) ==
    IF n = 0 THEN 0
    ELSE (IF (a % 2 = 1) \/ (b % 2 = 1) THEN 1 ELSE 0)
         + 2 * BitOrN(a \div 2, b \div 2, n - 1)

\* a | b on bytes
BitOr(a, b) == BitOrN(a, b, 8)

RECURSIVE BitAndNotN(_, _, _)
BitAndNotN(a, b, n) ==
    IF n = 0 THEN 0
    ELSE (IF (a % 2 = 1) /\ (b % 2 = 0) THEN 1 ELSE 0)
         + 2 * BitAndNotN(a \div 2, b \div 2, n - 1)

\* a &^ b on bytes
BitAndNot(a, b) == BitAndNotN(a, b, 8)

----------------------------------------------------------------------------
(* Formatting and parsing of the canonical string. *)

HexDigits == <<"0", "1", "2", "3", "4", "5", "6", "7",
               "8", "9", "a", "b", "c", "d", "e", "f">>
UpperHexDigits == <<"0", "1", "2", "3", "4", "5", "6", "7",
                    "8", "9", "A", "B", "C", "D", "E", "F">>

LowerHexSet == {HexDigits[i] : i \in 1..16}

\* HexOfByte without the leading zero of a byte below 0x10 (a %x per byte value)
HexOfByteNoPad(b) ==
    IF b < 16 THEN <<HexDigits[b + 1]>>
    ELSE <<HexDigits[(b \div 16) + 1], HexDigits[(b % 16) + 1]>>

\* two lowercase hex digits of one byte, as %x prints it
HexOfByte(b) == <<HexDigits[(b \div 16) + 1], HexDigits[(b % 16) + 1]>>

\* fmt's %x verb applied to a byte slice
RECURSIVE SprintfX(_)
SprintfX(s) == IF s = <<>> THEN <<>> ELSE HexOfByte(Head(s)) \o SprintfX(Tail(s))

\* b[lo:hi] of an array or slice indexed from 0
Slice(b, lo, hi) == [k \in 1..(hi - lo) |-> b[lo + k - 1]]

\* fmt.Sprintf("%x-%x-%x-%x-%x", b[0:4], b[4:6], b[6:8], b[8:10], b[10:16])
FormatCanonical(b) ==
    SprintfX(Slice(b, 0, 4)) \o <<"-">> \o
    SprintfX(Slice(b, 4, 6)) \o <<"-">> \o
    SprintfX(Slice(b, 6, 8)) \o <<"-">> \o
    SprintfX(Slice(b, 8, 10)) \o <<"-">> \o
    SprintfX(Slice(b, 10, 16))

\* value of a hex digit as hex.DecodeString reads it (either case), -1 otherwise
DigitVal(c) ==
    IF \E i \in 1..16 : HexDigits[i] = c
    THEN (CHOOSE i \in 1..16 : HexDigits[i] = c) - 1
    ELSE IF \E i \in 1..16 : UpperHexDigits[i] = c
    THEN (CHOOSE i \in 1..16 : UpperHexDigits[i] = c) - 1
    ELSE -1

\* strings.Replace(s, "-", "", -1)
StripHyphens(s) == SelectSeq(s, LAMBDA c : c # "-")

DecodeFailed == <<-1>>

\* hex.DecodeString: the bytes, or DecodeFailed on odd length or a non-hex digit
DecodeString(s) ==
    IF Len(s) % 2 = 1 \/ \E i \in 1..Len(s) : DigitVal(s[i]) = -1
    THEN DecodeFailed
    ELSE [k \in 1..(Len(s) \div 2) |-> 16 * DigitVal(s[2 * k - 1]) + DigitVal(s[2 * k])]

HyphenPositions == {9, 14, 19, 24}

\* ^[0-9a-f]{8}-[0-9a-f]{4}-[0-9a-f]{4}-[0-9a-f]{4}-[0-9a-f]{12}$
MatchString(input) ==
    /\ Len(input) = 36
    /\ \A i \in 1..36 :
        IF i \in HyphenPositions THEN input[i] = "-" ELSE input[i] \in LowerHexSet

----------------------------------------------------------------------------
(* The UUID struct and its accessors. *)

ZeroBin == [i \in 0..(BinLen - 1) |-> 0]

\* a nil *UUID
NilUUID == [isNil |-> TRUE, scope |-> "", hex |-> <<>>, bin |-> ZeroBin]

\* pointer to a zero-value UUID struct
ZeroUUID == [isNil |-> FALSE, scope |-> "", hex |-> <<>>, bin |-> ZeroBin]

Scope(uuid) == IF uuid.isNil THEN "" ELSE uuid.scope

Bin(uuid) == IF uuid.isNil THEN ZeroBin ELSE uuid.bin

Hex(uuid) == IF uuid.isNil THEN <<>> ELSE uuid.hex

Range(s) == {s[i] : i \in 1..Len(s)}

\* ScopeMatches: [ret, err]; ranging over a non-empty list dereferences uuid
ScopeMatches(uuid, list) ==
    IF Len(list) = 0 THEN [ret |-> FALSE, err |-> NoError]
    ELSE IF uuid.isNil THEN [ret |-> FALSE, err |-> Panic]
    ELSE [ret |-> \E index \in 1..Len(list) : uuid.scope = list[index],
          err |-> NoError]

----------------------------------------------------------------------------
(* The registry. *)

EmptyMap == [n \in {} |-> 0]

\* the nil map setScopes holds before SetScopes
NilMap == [isNil |-> TRUE, m |-> EmptyMap]

\* m[key] = &scopes[index]
MapPut(m, key, index) == (key :> index) @@ m

\* the effect on tmpMap of the loop iterations lo..hi-1 over array a, in order:
\* the assignment of a later iteration replaces that of an earlier one (the
\* iterations are split in halves to keep the evaluation shallow)
RECURSIVE BuildRange(_, _, _)
BuildRange(a, lo, hi) ==
    IF hi - lo = 1
    THEN MapPut(EmptyMap, a[lo], lo)
    ELSE LET mid == lo + ((hi - lo) \div 2)
         IN  BuildRange(a, mid, hi) @@ BuildRange(a, lo, mid)

\* tmpMap after the first k iterations of SetScopes' loop over array a
BuildUpTo(a, k) == IF k = 0 THEN EmptyMap ELSE BuildRange(a, 0, k)

\* tmpMap after the whole loop
BuildMap(a) == BuildUpTo(a, NumScopes)

NoPtr == -1

\* reg[name]: the index pointed to, NoPtr for Go's nil (missing key or nil map)
Lookup(reg, name) == IF name \in DOMAIN reg.m THEN reg.m[name] ELSE NoPtr

----------------------------------------------------------------------------
(* readScope, New, Read, Scan, Scopes, SetScopes as functions of the       *)
(* registry they run against.                                              *)

\* copy(uuid.bin[:], tmpBytes)
CopyBin(bin, tmpBytes) ==
    [i \in 0..(BinLen - 1) |-> IF i < Len(tmpBytes) THEN tmpBytes[i + 1] ELSE bin[i]]

\* the names the range loop of readScope can stop at for tmpByte
MatchingScopes(reg, tmpByte) == {n \in DOMAIN reg.m : tmpByte = scopes[reg.m[n]]}

\* readScope: the set of outcomes [uuid, err] (the map is ranged over in any order)
readScope(reg, uuid) ==
    LET tmpBytes == DecodeString(StripHyphens(uuid.hex))
        u1 == [uuid EXCEPT !.bin = CopyBin(uuid.bin, tmpBytes)]
        tmpByte == BitAndNot(u1.bin[0], 3)
        found == MatchingScopes(reg, tmpByte)
        after == IF found = {} THEN {u1} ELSE {[u1 EXCEPT !.scope = n] : n \in found}
    IN  IF tmpBytes = DecodeFailed
        THEN {[uuid |-> uuid, err |-> ErrorBadString]}
        ELSE IF reg.isNil
        THEN {[uuid |-> u1, err |-> ErrorMissingScope]}
        ELSE {[uuid |-> u2,
               err |-> IF u2.scope = "" THEN ErrorBadScope ELSE NoError] : u2 \in after}

\* NewUUID that ORs the tag into the random first byte instead of replacing it
NewUUIDKeepRandom(reg, scope, rnd, jitter) ==
    IF Lookup(reg, scope) = NoPtr
    THEN [uuid |-> NilUUID, err |-> ErrorMissingScope]
    ELSE LET bin == [rnd EXCEPT ![0] =
                        BitOr(rnd[0], BitOr(scopes[Lookup(reg, scope)], jitter))]
         IN  [uuid |-> [isNil |-> FALSE, scope |-> scope,
                        hex |-> FormatCanonical(bin), bin |-> bin],
              err |-> NoError]

\* NewUUID that tests the map for nil only and then dereferences the looked-up pointer
NewUUIDNilCheckOnly(reg, scope, rnd, jitter) ==
    IF reg.isNil
    THEN [uuid |-> NilUUID, err |-> ErrorMissingScope]
    ELSE IF Lookup(reg, scope) = NoPtr
    THEN [uuid |-> NilUUID, err |-> Panic]
    ELSE LET bin == [rnd EXCEPT ![0] = BitOr(scopes[Lookup(reg, scope)], jitter)]
         IN  [uuid |-> [isNil |-> FALSE, scope |-> scope,
                        hex |-> FormatCanonical(bin), bin |-> bin],
              err |-> NoError]

\* New: [uuid, err] for the bytes rnd read from crypto/rand and the jitter mrand.Intn(4).
\* crypto/rand.Read is documented never to return an error, so that branch is not an outcome.
NewUUID(reg, scope, rnd, jitter) ==
    IF Lookup(reg, scope) = NoPtr
    THEN [uuid |-> NilUUID, err |-> ErrorMissingScope]
    ELSE LET bin == [rnd EXCEPT ![0] = BitOr(scopes[Lookup(reg, scope)], jitter)]
         IN  [uuid |-> [isNil |-> FALSE, scope |-> scope,
                        hex |-> FormatCanonical(bin), bin |-> bin],
              err |-> NoError]

\* Read: the set of outcomes [uuid, err]
ReadUUID(reg, input) ==
    IF ~MatchString(input)
    THEN {[uuid |-> NilUUID, err |-> ErrorBadString]}
    ELSE {IF o.err # NoError
          THEN [uuid |-> NilUUID, err |-> ErrorBadScope]
          ELSE [uuid |-> o.uuid, err |-> NoError]
          : o \in readScope(reg, [ZeroUUID EXCEPT !.hex = input])}

\* Scan: the set of outcomes [uuid, err]; src is [isBytes, bytes]
ScanUUID(reg, uuid, src) ==
    IF ~src.isBytes
    THEN {[uuid |-> uuid, err |-> ErrorTypeAssertion]}
    ELSE IF uuid.isNil
    THEN {[uuid |-> uuid, err |-> Panic]}
    ELSE readScope(reg, [uuid EXCEPT !.hex = FormatCanonical(src.bytes)])

\* Scopes: the returned [64]string up to the order of its entries, which follows the
\* map's iteration order: the names set, and the count of entries left ""
ScopesList(reg) ==
    [names |-> DOMAIN reg.m, unset |-> NumScopes - Cardinality(DOMAIN reg.m)]

\* SetScopes without the check that the scopes are not set yet
SetScopesNoCheck(reg, a) ==
    [reg |-> [isNil |-> FALSE, m |-> BuildMap(a)], err |-> NoError]

\* SetScopes, run without interruption: [reg, err]
SetScopesResult(reg, a) ==
    IF ~reg.isNil
    THEN [reg |-> reg, err |-> ErrorScopesAlreadySet]
    ELSE [reg |-> [isNil |-> FALSE, m |-> BuildMap(a)], err |-> NoError]

----------------------------------------------------------------------------
(* Inputs. *)

PrefixNames == {"", "one", "five"}

FillerName(i) == "s" \o ToString(i)

\* [64]string{p[0], ..., p[PrefixLen-1]} with the rest left "" (as the tests and the
\* README do), or with the rest filled with 64 - PrefixLen further distinct names
MkArray(p, fill) ==
    [i \in 0..(NumScopes - 1) |->
        IF i < PrefixLen THEN p[i] ELSE IF fill THEN FillerName(i) ELSE ""]

Arrays == {MkArray(p, fill) : p \in [0..(PrefixLen - 1) -> PrefixNames], fill \in BOOLEAN}

RandBytes(seed) == [i \in 0..(BinLen - 1) |-> (seed * 89 + i * 43 + 171) % 256]

RandFills == {RandBytes(seed) : seed \in 0..MaxSeed}

NewArgs == PrefixNames \cup {FillerName(NumScopes - 1), "ten"}

\* the bytes of "ff8cb1d0-84f3-9d8d-76cc-682d1ca34dae"
TestBin == [i \in 0..(BinLen - 1) |->
    <<255, 140, 177, 208, 132, 243, 157, 141,
      118, 204, 104, 45, 28, 163, 77, 174>>[i + 1]]

ProbeFirstBytes == {0, 5, 255}

ProbeBins == {[TestBin EXCEPT ![0] = f] : f \in ProbeFirstBytes}

UpperCase(s) ==
    [i \in 1..Len(s) |->
        IF DigitVal(s[i]) = -1 THEN s[i] ELSE UpperHexDigits[DigitVal(s[i]) + 1]]

\* strings Read is called with: the canonical strings of the probes, the string of
\* the caller's myUUID, that string cut to one character, and an upper-case string
ReadInputs(u) ==
    {FormatCanonical(b) : b \in ProbeBins}
    \cup {Hex(u)}
    \cup (IF Len(Hex(u)) >= 1 THEN {SubSeq(Hex(u), 1, 1)} ELSE {})
    \cup {UpperCase(FormatCanonical(TestBin))}

ScanInputs ==
    {[isBytes |-> TRUE, bytes |-> b] : b \in ProbeBins}
    \cup {[isBytes |-> FALSE, bytes |-> ZeroBin]}

CandNames == {"", "five", "ten"}

CandLists == UNION {[1..n -> CandNames] : n \in 0..MaxCand}

----------------------------------------------------------------------------------------------------------------------------------------
(* The sequential caller: one action per call. *)

\* no [64]string returned
NoList == [names |-> {}, unset |-> 0]

NoCall == [op |-> "none", arg |-> "", err |-> NoError, ret |-> FALSE, list |-> NoList]

\* the goroutines that call SetScopes concurrently
Setters == {"g1", "g2"}

NoObs == [op |-> "none", view |-> NilMap, err |-> NoError, list |-> NoList]

\* no goroutine besides the sequential caller runs
RaceIdle ==
    /\ pc = [g \in Setters |-> "idle"]
    /\ newScopes = [g \in Setters |-> [i \in 0..(NumScopes - 1) |-> ""]]
    /\ tmpMap = [g \in Setters |-> NilMap]
    /\ result = [g \in Setters |-> NoError]
    /\ obs = NoObs

Init ==
    /\ setScopes = NilMap
    /\ myUUID = NilUUID
    /\ last = NoCall
    /\ RaceIdle

\* err = uuid.SetScopes(a)
SetScopes(a) ==
    LET r == SetScopesResult(setScopes, a)
    IN  /\ setScopes' = r.reg
        /\ last' = [op |-> "SetScopes", arg |-> "", err |-> r.err, ret |-> FALSE, list |-> NoList]
        /\ UNCHANGED myUUID

\* myUUID, err = uuid.New(scope)
New(scope, rnd, jitter) ==
    LET r == NewUUID(setScopes, scope, rnd, jitter)
    IN  /\ myUUID' = r.uuid
        /\ last' = [op |-> "New", arg |-> scope, err |-> r.err, ret |-> FALSE, list |-> NoList]
        /\ UNCHANGED setScopes

\* myUUID, err = uuid.Read(input)
Read(input) ==
    \E r \in ReadUUID(setScopes, input) :
        /\ myUUID' = r.uuid
        /\ last' = [op |-> "Read", arg |-> "", err |-> r.err, ret |-> FALSE, list |-> NoList]
        /\ UNCHANGED setScopes

\* err = myUUID.Scan(src)
Scan(src) ==
    \E r \in ScanUUID(setScopes, myUUID, src) :
        /\ myUUID' = r.uuid
        /\ last' = [op |-> "Scan", arg |-> "", err |-> r.err, ret |-> FALSE, list |-> NoList]
        /\ UNCHANGED setScopes

\* myUUID = new(uuid.UUID): a zero-value struct, e.g. the destination of a row scan
Declare ==
    /\ myUUID' = ZeroUUID
    /\ last' = [op |-> "Declare", arg |-> "", err |-> NoError, ret |-> FALSE, list |-> NoList]
    /\ UNCHANGED setScopes

\* myUUID.ScopeMatches(list)
CallScopeMatches(list) ==
    LET r == ScopeMatches(myUUID, list)
    IN  /\ last' = [op |-> "ScopeMatches", arg |-> "", err |-> r.err, ret |-> r.ret, list |-> NoList]
        /\ UNCHANGED <<setScopes, myUUID>>

\* uuid.Scopes()
CallScopes ==
    /\ last' = [op |-> "Scopes", arg |-> "", err |-> NoError, ret |-> FALSE,
                list |-> ScopesList(setScopes)]
    /\ UNCHANGED <<setScopes, myUUID>>

Next ==
    \/ \E a \in Arrays : SetScopes(a) /\ UNCHANGED raceVars
    \/ \E scope \in NewArgs, rnd \in RandFills, jitter \in 0..(JitterRange - 1) :
            New(scope, rnd, jitter) /\ UNCHANGED raceVars
    \/ \E input \in ReadInputs(myUUID) : Read(input) /\ UNCHANGED raceVars
    \/ \E src \in ScanInputs : Scan(src) /\ UNCHANGED raceVars
    \/ Declare /\ UNCHANGED raceVars
    \/ \E list \in CandLists : CallScopeMatches(list) /\ UNCHANGED raceVars
    \/ CallScopes /\ UNCHANGED raceVars

Spec == Init /\ [][Next]_vars

----------------------------------------------------------------------------
(* Concurrent callers: two goroutines inside SetScopes and one goroutine    *)
(* reading the registry, with no synchronisation between them (the package  *)
(* has none).  A SetScopes call is split at its accesses to the shared      *)
(* variable setScopes: the nil check, the build of the local tmpMap, the    *)
(* assignment.                                                              *)

\* myScopes of the test: [64]string{"one", ..., "eight"}
TestScopes1 ==
    [i \in 0..(NumScopes - 1) |->
        IF i < 8
        THEN <<"one", "two", "three", "four", "five", "six", "seven", "eight">>[i + 1]
        ELSE ""]

\* myScopes of the test's second call: [64]string{"one"}
TestScopes2 == [i \in 0..(NumScopes - 1) |-> IF i = 0 THEN "one" ELSE ""]

RaceArrays == {TestScopes1, TestScopes2}

InitRace ==
    /\ setScopes = NilMap
    /\ myUUID = NilUUID
    /\ last = NoCall
    /\ pc = [g \in Setters |-> "check"]
    /\ newScopes \in [Setters -> RaceArrays]
    /\ tmpMap = [g \in Setters |-> NilMap]
    /\ result = [g \in Setters |-> NoError]
    /\ obs = NoObs

\* if setScopes != nil { return errors.New(ErrorScopesAlreadySet) }
RaceCheck(g) ==
    /\ pc[g] = "check"
    /\ IF ~setScopes.isNil
       THEN /\ result' = [result EXCEPT ![g] = ErrorScopesAlreadySet]
            /\ pc' = [pc EXCEPT ![g] = "done"]
       ELSE /\ pc' = [pc EXCEPT ![g] = "build"]
            /\ UNCHANGED result
    /\ UNCHANGED <<setScopes, newScopes, tmpMap, obs>>

\* tmpMap = make(map[string]*byte) and the loop filling it
RaceBuild(g) ==
    /\ pc[g] = "build"
    /\ tmpMap' = [tmpMap EXCEPT ![g] = [isNil |-> FALSE, m |-> BuildMap(newScopes[g])]]
    /\ pc' = [pc EXCEPT ![g] = "publish"]
    /\ UNCHANGED <<setScopes, newScopes, result, obs>>

\* setScopes = tmpMap; return nil
RacePublish(g) ==
    /\ pc[g] = "publish"
    /\ setScopes' = tmpMap[g]
    /\ result' = [result EXCEPT ![g] = NoError]
    /\ pc' = [pc EXCEPT ![g] = "done"]
    /\ UNCHANGED <<newScopes, tmpMap, obs>>

\* What a goroutine that is not synchronised with the writer can find behind
\* setScopes.  The pointer is one word and is seen whole; the map it points to
\* was filled by the writer's loop, and a racing read of it may see the writes of
\* only the first k iterations (Go's memory model orders them before the
\* assignment for the writer alone).  The model lets the read see the whole map,
\* or the writes of the first k iterations for k up to MaxVisible.
Views ==
    IF setScopes.isNil
    THEN {NilMap}
    ELSE {setScopes} \cup
         {[isNil |-> FALSE, m |-> BuildUpTo(newScopes[g], k)] :
            g \in {h \in Setters : tmpMap[h] = setScopes}, k \in 0..MaxVisible}

\* the reader calls Scopes()
RaceScopes ==
    /\ \E v \in Views : obs' = [op |-> "Scopes", view |-> v, err |-> NoError,
                              list |-> ScopesList(v)]
    /\ UNCHANGED <<setScopes, pc, newScopes, tmpMap, result>>

\* the reader calls New(scope)
RaceNew(scope, rnd, jitter) ==
    /\ \E v \in Views :
          obs' = [op |-> "New", view |-> v, err |-> NewUUID(v, scope, rnd, jitter).err,
                  list |-> NoList]
    /\ UNCHANGED <<setScopes, pc, newScopes, tmpMap, result>>

\* the reader calls Read(input)
RaceRead(input) ==
    /\ \E v \in Views : \E r \in ReadUUID(v, input) :
          obs' = [op |-> "Read", view |-> v, err |-> r.err, list |-> NoList]
    /\ UNCHANGED <<setScopes, pc, newScopes, tmpMap, result>>

NextRace ==
    \/ \E g \in Setters : RaceCheck(g) /\ UNCHANGED seqVars
    \/ \E g \in Setters : RaceBuild(g) /\ UNCHANGED seqVars
    \/ \E g \in Setters : RacePublish(g) /\ UNCHANGED seqVars
    \/ RaceScopes /\ UNCHANGED seqVars
    \/ \E rnd \in RandFills : RaceNew("five", rnd, 0) /\ UNCHANGED seqVars
    \/ RaceRead(FormatCanonical(TestBin)) /\ UNCHANGED seqVars

SpecRace == InitRace /\ [][NextRace]_vars

----------------------------------------------------------------------------
(* Properties. *)

\* b & 0xFC
AndFC(b) == b - (b % 4)

\* the names of array a
NamesOf(a) == {a[i] : i \in 0..(NumScopes - 1)}

\* the first byte of a grammar-valid canonical string
FirstByte(input) == 16 * DigitVal(input[1]) + DigitVal(input[2])

\* no name of the configured registry is bound to tag
Unbound(tag) == \A n \in DOMAIN setScopes.m : scopes[setScopes.m[n]] # tag

\* the identifiers New(s) returns from the current registry
Generated(s) ==
    {NewUUID(setScopes, s, rnd, jitter).uuid :
        rnd \in RandFills, jitter \in 0..(JitterRange - 1)} \ {NilUUID}

\* C1: in a sequence of SetScopes calls the first call (the one that finds the
\* registry unset) succeeds and binds the names of its array; every later call
\* fails with ErrorScopesAlreadySet and leaves setScopes as it was; nothing but
\* that first call changes setScopes.
C1_SetScopesOnce ==
    [][/\ \A a \in Arrays :
            (last'.op = "SetScopes" /\ setScopes.isNil /\ SetScopes(a))
            => /\ last'.err = NoError
               /\ ~setScopes'.isNil
               /\ DOMAIN setScopes'.m = NamesOf(a)
       /\ (last'.op = "SetScopes" /\ ~setScopes.isNil)
            => /\ last'.err = ErrorScopesAlreadySet
               /\ setScopes' = setScopes
       /\ setScopes' # setScopes => setScopes.isNil /\ last'.op = "SetScopes"
      ]_vars

C1_Witness ==
    /\ last.op = "SetScopes"
    /\ last.err = ErrorScopesAlreadySet
    /\ ~setScopes.isNil

\* myUUID is the identifier the call New(s) has just returned
Returned(s) == last.op = "New" /\ last.err = NoError /\ last.arg = s

\* C3 as claimed: for every name s bound in the registry, whatever its value, and
\* every identifier u returned by New(s), Read(u.Hex()) succeeds and returns an
\* identifier with the scope, bin and hex of u.
C3_RoundTripAnyName ==
    [][\A s \in NewArgs :
        (last'.op = "Read" /\ Returned(s) /\ Read(Hex(myUUID)))
        => /\ last'.err = NoError
           /\ Scope(myUUID') = s
           /\ Bin(myUUID') = Bin(myUUID)
           /\ Hex(myUUID') = Hex(myUUID)
      ]_vars

\* C3 amended: the same for every bound name s other than the empty string.
C3_RoundTrip ==
    [][\A s \in NewArgs :
        (last'.op = "Read" /\ s # "" /\ Returned(s) /\ Read(Hex(myUUID)))
        => /\ last'.err = NoError
           /\ Scope(myUUID') = s
           /\ Bin(myUUID') = Bin(myUUID)
           /\ Hex(myUUID') = Hex(myUUID)
      ]_vars

C3_Witness ==
    /\ last.op = "Read"
    /\ last.err = NoError
    /\ Scope(myUUID) # ""
    /\ myUUID \in Generated(Scope(myUUID))

\* C6: every identifier New(s) returns has (bin[0] & 0xFC) equal to the tag the
\* registry binds to s, that value is an entry of the scopes table (a multiple of 4
\* in 0x00..0xFC), and its scope is s; for every random fill and every jitter.
C6_TagInvariant ==
    [][(last'.op = "New" /\ last'.err = NoError)
        => /\ last'.arg \in DOMAIN setScopes.m
           /\ AndFC(Bin(myUUID')[0]) = scopes[setScopes.m[last'.arg]]
           /\ \E i \in 0..(NumScopes - 1) : AndFC(Bin(myUUID')[0]) = 4 * i
           /\ Scope(myUUID') = last'.arg
      ]_vars

C6_Witness ==
    /\ last.op = "New"
    /\ last.err = NoError
    /\ Bin(myUUID)[0] % 4 # 0
    /\ AndFC(Bin(myUUID)[0]) # 0

C2_ExactlyOneSetter ==
    (\A g \in Setters : pc[g] = "done")
    => \E w \in Setters :
        /\ result[w] = NoError
        /\ \A o \in Setters \ {w} : result[o] = ErrorScopesAlreadySet
        /\ setScopes = [isNil |-> FALSE, m |-> BuildMap(newScopes[w])]

\* C4: Read of a grammar-valid string while the registry is unset fails with
\* ErrorMissingScope; Read fails with ErrorBadScope only when the registry is set
\* and the masked first byte is the tag of no bound name.
C4_ReadUnconfigured ==
    [][\A input \in ReadInputs(myUUID) :
        (last'.op = "Read" /\ MatchString(input) /\ Read(input))
        => /\ setScopes.isNil => last'.err = ErrorMissingScope
           /\ last'.err = ErrorBadScope
                => ~setScopes.isNil /\ Unbound(AndFC(FirstByte(input)))
      ]_vars

\* C5: ScopeMatches(list) never faults and returns true iff the identifier holds a
\* resolved scope that is an entry of list; so it returns false for a nil pointer
\* and for a zero-value UUID whatever the list, and false for an empty list.
C5_ScopeMatches ==
    [][\A list \in CandLists :
        (last'.op = "ScopeMatches" /\ CallScopeMatches(list))
        => /\ last'.err = NoError
           /\ last'.ret <=> (/\ ~myUUID.isNil
                             /\ myUUID.scope # ""
                             /\ myUUID.scope \in Range(list))
      ]_vars

\* C8: a registry read that runs concurrently with or after a successful SetScopes
\* finds the registry unset or finds the complete bindings of one SetScopes call,
\* never only some of them.
C8_NoPartialRegistry ==
    obs.op # "none"
    => \/ obs.view.isNil
       \/ \E g \in Setters : obs.view.m = BuildMap(newScopes[g])

\* C9: with the registry set, parsing input whose first byte masked with 0xFC is the
\* tag of no bound name fails with ErrorBadScope and leaves no resolved scope: in
\* Read of a grammar-valid string, and in Scan of 16 bytes into any UUID, also one
\* that holds a previously resolved identifier.
C9_UnknownTag ==
    [][/\ \A input \in ReadInputs(myUUID) :
            (/\ last'.op = "Read"
             /\ ~setScopes.isNil
             /\ MatchString(input)
             /\ Unbound(AndFC(FirstByte(input)))
             /\ Read(input))
            => last'.err = ErrorBadScope /\ Scope(myUUID') = ""
       /\ \A src \in ScanInputs :
            (/\ last'.op = "Scan"
             /\ ~setScopes.isNil
             /\ ~myUUID.isNil
             /\ src.isBytes
             /\ Unbound(AndFC(src.bytes[0]))
             /\ Scan(src))
            => last'.err = ErrorBadScope /\ Scope(myUUID') = ""
      ]_vars

\* the highest index at which array a holds name n
HighestIndex(a, n) ==
    CHOOSE i \in 0..(NumScopes - 1) :
        a[i] = n /\ \A j \in 0..(NumScopes - 1) : a[j] = n => j <= i

\* SetScopes(a) on an unset registry succeeds, binds every name to the scopes entry
\* of its highest index, leaves the entry of every earlier duplicate index bound to
\* no name, and binds distinct names to distinct tags
CollapsedBindings(a) ==
    /\ last'.err = NoError
    /\ \A i \in 0..(NumScopes - 1) :
        /\ a[i] \in DOMAIN setScopes'.m
        /\ setScopes'.m[a[i]] = HighestIndex(a, a[i])
        /\ (\E j \in (i + 1)..(NumScopes - 1) : a[j] = a[i])
            => \A n \in DOMAIN setScopes'.m : setScopes'.m[n] # i
    /\ \A n1, n2 \in DOMAIN setScopes'.m :
        n1 # n2 => scopes[setScopes'.m[n1]] # scopes[setScopes'.m[n2]]

\* C10: SetScopes accepts an array with duplicate names and collapses them as in
\* CollapsedBindings, and parsing (Read or Scan) an identifier whose tag is left
\* bound to no name fails with ErrorBadScope.
C10_DuplicateCollapse ==
    [][/\ \A a \in Arrays :
            (last'.op = "SetScopes" /\ setScopes.isNil /\ SetScopes(a))
            => CollapsedBindings(a)
       /\ \A input \in ReadInputs(myUUID) :
            (/\ last'.op = "Read"
             /\ ~setScopes.isNil
             /\ MatchString(input)
             /\ Unbound(AndFC(FirstByte(input)))
             /\ Read(input))
            => last'.err = ErrorBadScope
       /\ \A src \in ScanInputs :
            (/\ last'.op = "Scan"
             /\ ~setScopes.isNil
             /\ ~myUUID.isNil
             /\ src.isBytes
             /\ Unbound(AndFC(src.bytes[0]))
             /\ Scan(src))
            => last'.err = ErrorBadScope
      ]_vars

\* The part of C10 that is about the registry and Read alone.
DuplicateCollapseRead ==
    [][/\ \A a \in Arrays :
            (last'.op = "SetScopes" /\ setScopes.isNil /\ SetScopes(a))
            => CollapsedBindings(a)
       /\ \A input \in ReadInputs(myUUID) :
            (/\ last'.op = "Read"
             /\ ~setScopes.isNil
             /\ MatchString(input)
             /\ Unbound(AndFC(FirstByte(input)))
             /\ Read(input))
            => last'.err = ErrorBadScope
      ]_vars

====
